---- MODULE Spec2Model ----
(***************************************************************************)
(* communitydocs-rag: the structured-generation retry loop                 *)
(* (communitydocs_rag/llm/generate.py) with its prompt builder, the        *)
(* SimpleResult schema (llm/schema.py) and the generator capability        *)
(* (llm/client.py, or the FakeClient of the tests).                        *)
(*                                                                         *)
(* Conventions.  A Python str is a TLA+ string.  An Optional[str] is <<>>  *)
(* (None) or <<s>>.  An f-string is the sequence of its parts.  A JSON     *)
(* number is an integer number of tenths (0.8 is 8).  A JSON value is a    *)
(* record tagged by its field k.                                           *)
(***************************************************************************)
EXTENDS Integers, Sequences, FiniteSets, TLC

(***************************************************************************)
(* Bounds of the model.                                                    *)
(***************************************************************************)
\* max_retries is drawn from -NegRetries..MaxRetries
MaxRetries == 2
NegRetries == 2

(***************************************************************************)
(* JSON values, as json.loads builds them.                                 *)
(***************************************************************************)
JStr(s) == [k |-> "str", s |-> s]
JNum(tenths) == [k |-> "num", v |-> tenths]
JList(items) == [k |-> "list", items |-> items]
JObj(fields) == [k |-> "obj", fields |-> fields]

Unset == [k |-> "unset"]

(***************************************************************************)
(* The raw texts a generator may return.                                   *)
(***************************************************************************)
TNotJson == "not json at all"
TGarbage == "garbage"
TOk == "{\"title\":\"OK\",\"items\":[\"x\",\"y\",\"z\"],\"confidence\":0.8}"
TGood == "{\"title\":\"Good\",\"items\":[\"x\",\"y\",\"z\"],\"confidence\":0.6}"
TBadType == "{\"title\":\"Bad\",\"items\":[\"x\"],\"confidence\":\"high\"}"
TExtra == "{\"title\":\"OK\",\"items\":[\"x\"],\"confidence\":0.8,\"note\":\"n\"}"
TRange == "{\"title\":\"OK\",\"items\":[\"x\"],\"confidence\":1.5}"
TMissing == "{\"title\":\"OK\",\"items\":[\"x\"]}"
TNumStr == "{\"title\":\"OK\",\"items\":[\"x\"],\"confidence\":\"0.5\"}"
\* stands for "[" repeated 100000 times: json.loads raises RecursionError on it
TDeep == "[[[[[[[[...(100000 times)"

Texts == {TNotJson, TGarbage, TOk, TGood, TBadType, TExtra, TRange, TMissing,
          TNumStr, TDeep}

\* the exceptions OllamaClient.generate re-raises
ClientErrors == {"TimeoutException", "ConnectError"}

Tasks == {"Return a title, 3 items, and confidence.",
          "Return JSON only with a short title."}

(***************************************************************************)
(* json.loads(raw): the parsed value, a json.JSONDecodeError, or another   *)
(* exception (RecursionError for a document nested too deep).              *)
(***************************************************************************)
JsonLoads(raw) ==
    CASE raw = TOk ->
           [kind |-> "ok", value |-> JObj([title |-> JStr("OK"),
                items |-> JList(<<JStr("x"), JStr("y"), JStr("z")>>),
                confidence |-> JNum(8)])]
      [] raw = TGood ->
           [kind |-> "ok", value |-> JObj([title |-> JStr("Good"),
                items |-> JList(<<JStr("x"), JStr("y"), JStr("z")>>),
                confidence |-> JNum(6)])]
      [] raw = TBadType ->
           [kind |-> "ok", value |-> JObj([title |-> JStr("Bad"),
                items |-> JList(<<JStr("x")>>),
                confidence |-> JStr("high")])]
      [] raw = TExtra ->
           [kind |-> "ok", value |-> JObj([title |-> JStr("OK"),
                items |-> JList(<<JStr("x")>>),
                confidence |-> JNum(8),
                note |-> JStr("n")])]
      [] raw = TRange ->
           [kind |-> "ok", value |-> JObj([title |-> JStr("OK"),
                items |-> JList(<<JStr("x")>>),
                confidence |-> JNum(15)])]
      [] raw = TMissing ->
           [kind |-> "ok", value |-> JObj([title |-> JStr("OK"),
                items |-> JList(<<JStr("x")>>)])]
      [] raw = TNumStr ->
           [kind |-> "ok", value |-> JObj([title |-> JStr("OK"),
                items |-> JList(<<JStr("x")>>),
                confidence |-> JStr("0.5")])]
      [] raw = TDeep ->
           [kind |-> "exception", exc |-> "RecursionError"]
      [] OTHER ->
           [kind |-> "JSONDecodeError", exc |-> "Expecting value"]

(***************************************************************************)
(* SimpleResult (llm/schema.py) and schema.model_validate(data).           *)
(***************************************************************************)
TitleMinLength == 1
TitleMaxLength == 200
ItemsMinItems == 1
ItemsMaxItems == 10
\* ge=0.0 and le=1.0, in tenths
ConfidenceGe == 0
ConfidenceLe == 10

SchemaFields == {"title", "items", "confidence"}

\* float("..."): the numeric strings of the model, in tenths; <<>> when the
\* string is no number
FloatOfStr(s) ==
    CASE s = "0.5" -> <<5>>
      [] s = "1" -> <<10>>
      [] s = "1.5" -> <<15>>
      [] OTHER -> <<>>

\* a float field takes a JSON number, or a string that parses as a number
AsFloat(v) ==
    CASE v.k = "num" -> <<v.v>>
      [] v.k = "str" -> FloatOfStr(v.s)
      [] OTHER -> <<>>

TitleErrors(f) ==
    IF "title" \notin DOMAIN f THEN {"title: missing"}
    ELSE IF f.title.k # "str" THEN {"title: string_type"}
    ELSE IF Len(f.title.s) < TitleMinLength THEN {"title: string_too_short"}
    ELSE IF Len(f.title.s) > TitleMaxLength THEN {"title: string_too_long"}
    ELSE {}

ItemsErrors(f) ==
    IF "items" \notin DOMAIN f THEN {"items: missing"}
    ELSE IF f.items.k # "list" THEN {"items: list_type"}
    ELSE IF Len(f.items.items) < ItemsMinItems THEN {"items: too_short"}
    ELSE IF Len(f.items.items) > ItemsMaxItems THEN {"items: too_long"}
    ELSE IF \E i \in 1..Len(f.items.items) : f.items.items[i].k # "str"
         THEN {"items: string_type"}
    ELSE {}

\* mutant: ge and le are not declared
ConfidenceErrors_NoRange(f) ==
    IF "confidence" \notin DOMAIN f THEN {"confidence: missing"}
    ELSE IF AsFloat(f.confidence) = <<>> THEN {"confidence: float_type"}
    ELSE {}

ConfidenceErrors(f) ==
    IF "confidence" \notin DOMAIN f THEN {"confidence: missing"}
    ELSE IF AsFloat(f.confidence) = <<>> THEN {"confidence: float_type"}
    ELSE IF AsFloat(f.confidence)[1] < ConfidenceGe
         THEN {"confidence: greater_than_equal"}
    ELSE IF AsFloat(f.confidence)[1] > ConfidenceLe
         THEN {"confidence: less_than_equal"}
    ELSE {}

ValidationErrors(data) ==
    IF data.k # "obj" THEN {"model_type"}
    ELSE TitleErrors(data.fields) \cup ItemsErrors(data.fields)
           \cup ConfidenceErrors(data.fields)

\* the SimpleResult instance built from data: the declared fields only (the
\* model config keeps pydantic's default for undeclared keys: they are
\* ignored), confidence as a float
SimpleResult(data) ==
    [k |-> "SimpleResult",
     title |-> data.fields.title.s,
     items |-> [i \in 1..Len(data.fields.items.items) |->
                   data.fields.items.items[i].s],
     confidence |-> AsFloat(data.fields.confidence)[1]]

ModelValidate(data) ==
    IF ValidationErrors(data) = {}
    THEN [kind |-> "ok", obj |-> SimpleResult(data)]
    ELSE [kind |-> "ValidationError", errors |-> ValidationErrors(data)]

(***************************************************************************)
(* _schema_hint and _build_prompt.                                         *)
(***************************************************************************)
SchemaHint ==
    [type |-> "object",
     required_keys |-> <<"title", "items", "confidence">>,
     properties |-> [title |-> [type |-> "string"],
                     items |-> [type |-> "array"],
                     confidence |-> [type |-> "number"]]]

Rules == "RULES: 1) Output ONLY valid JSON. 2) keys MUST match the schema 3) double quotes 4) No trailing commas 5) confidence between 0 and 1"

\* previous_invalid or ''
OrEmpty(previous_invalid) ==
    IF previous_invalid = <<>> THEN "" ELSE previous_invalid[1]

\* mutant: the repair prompt keeps the task section
BuildPrompt_RepairKeepsTask(user_task, previous_invalid, repair_mode) ==
    IF ~repair_mode
    THEN <<Rules, "SCHEMA (follow this):", SchemaHint, "TASK:", user_task>>
    ELSE <<Rules, "SCHEMA (follow this):", SchemaHint, "TASK:", user_task,
           "INVALID OUTPUT:", OrEmpty(previous_invalid)>>

BuildPrompt(user_task, previous_invalid, repair_mode) ==
    IF ~repair_mode
    THEN <<Rules, "SCHEMA (follow this):", SchemaHint, "TASK:", user_task>>
    ELSE <<Rules, "SCHEMA (follow this):", SchemaHint,
           "Your previous output was invalid JSON or did not match the schema.",
           "Repair it and output ONLY corrected JSON that matches the schema.",
           "INVALID OUTPUT:", OrEmpty(previous_invalid)>>

(***************************************************************************)
(* generate_structured: the state of one call.                             *)
(***************************************************************************)
VARIABLES
    max_retries,     \* argument
    user_task,       \* argument
    attempts_total,  \* 1 + max_retries
    last_raw,        \* the raw output carried to the next repair prompt
    last_err,        \* the recorded failure reason, <<>> for ""
    attempt,         \* the loop variable, 0 before the first iteration
    pc,              \* the position in the function body
    prompt,          \* the prompt built for this attempt
    raw,             \* <<>> until client.generate returned, then <<text>>
    data,            \* the value json.loads returned
    result,          \* the value returned to the caller
    error,           \* the StructuredGenerationError raised to the caller
    escaped,         \* an exception other than that one leaving the call
    client_calls,    \* what the generator saw and answered, call by call
    log,             \* the outcome the logger reported for each attempt
    bp,              \* _build_prompt called on its own: arguments and results
    par              \* generate_structured calls running side by side

vars == <<max_retries, user_task, attempts_total, last_raw, last_err, attempt,
          pc, prompt, raw, data, result, error, escaped, client_calls, log,
          bp, par>>

\* mutant: the first attempt is not counted
AttemptsTotal_RetriesOnly(mr) == mr

\* attempts_total = 1 + max_retries
AttemptsTotal(mr) == 1 + mr

\* mutant: range(1, attempts_total + 2)
AttemptRange_OneMore(total) == 1..(total + 1)

\* mutant: at least one attempt is made
AttemptRange_AtLeastOne(total) == 1..(IF total < 1 THEN 1 ELSE total)

\* range(1, attempts_total + 1)
AttemptRange(total) == 1..total

\* mutant: a repair prompt only when there is an output to repair
PromptFor_RepairOnlyWithOutput(att, task, carried) ==
    IF att = 1 \/ carried = ""
    THEN BuildPrompt(task, <<>>, FALSE)
    ELSE BuildPrompt(task, <<carried>>, TRUE)

\* attempt 1 builds the normal prompt, every later one the repair prompt
PromptFor(att, task, carried) ==
    IF att = 1
    THEN BuildPrompt(task, <<>>, FALSE)
    ELSE BuildPrompt(task, <<carried>>, TRUE)

\* the three failure reasons
ClientError(e) == <<"Client/LLM error: ", e>>
ParseError(e) == <<"JSON parse error: ", e>>
SchemaError(errors) == <<"Schema validation error: ", errors>>

\* last_err or "Unknown error"
OrUnknown(err) == IF err = <<>> THEN <<"Unknown error">> ELSE err

StructuredGenerationError(carried, err, total) ==
    [k |-> "StructuredGenerationError",
     message |-> <<"Failed to generate valid structured output after ",
                   total, " attempts">>,
     last_raw_output |-> carried,
     last_error |-> err,
     attempts |-> total]

\* logger.warning("Attempt %d failed: %s"), logger.exception("Attempt %d
\* failed with exception"), logger.info("... succeeded on attempt %d")
LogEntry(att, what, reason) == [attempt |-> att, what |-> what, reason |-> reason]

\* what one call of client.generate(prompt) can do: return a text or raise
TextOut(t) == [k |-> "text", v |-> t]
ExcOut(e) == [k |-> "exc", v |-> e]

\* nothing else runs next to the call
NoPromptCalls == <<>>
NoParallelCalls == <<>>

Init ==
    /\ bp = NoPromptCalls
    /\ par = NoParallelCalls
    /\ max_retries \in (0 - NegRetries)..MaxRetries
    /\ user_task \in Tasks
    /\ attempts_total = AttemptsTotal(max_retries)
    /\ last_raw = ""
    /\ last_err = <<>>
    /\ attempt = 0
    /\ pc = "for"
    /\ prompt = <<>>
    /\ raw = <<>>
    /\ data = Unset
    /\ result = Unset
    /\ error = Unset
    /\ escaped = <<>>
    /\ client_calls = <<>>
    /\ log = <<>>

\* mutant: the prompt is built once, before the loop
ForNext_PromptBuiltOnce ==
    /\ pc = "for"
    /\ IF attempt + 1 \in 1..attempts_total
       THEN /\ attempt' = attempt + 1
            /\ pc' = (IF attempt = 0 THEN "build" ELSE "call")
       ELSE attempt' = attempt /\ pc' = "raise"
    /\ UNCHANGED <<bp, par, max_retries, user_task, attempts_total, last_raw, last_err,
                   prompt, raw, data, result, error, escaped, client_calls,
                   log>>

\* mutant: a while loop that retries the same attempt until it succeeds
ForNext_SameAttemptAgain ==
    /\ pc = "for"
    /\ IF attempt + 1 \in 1..attempts_total
       THEN attempt' = attempt + 1 /\ pc' = "build"
       ELSE attempt' = attempt /\ pc' = (IF attempt >= 1 THEN "build" ELSE "raise")
    /\ UNCHANGED <<bp, par, max_retries, user_task, attempts_total, last_raw, last_err,
                   prompt, raw, data, result, error, escaped, client_calls,
                   log>>

\* for attempt in range(1, attempts_total + 1): the next iteration, or the
\* code after the loop
ForNext ==
    /\ pc = "for"
    /\ IF attempt + 1 \in AttemptRange(attempts_total)
       THEN attempt' = attempt + 1 /\ pc' = "build"
       ELSE attempt' = attempt /\ pc' = "raise"
    /\ UNCHANGED <<bp, par, max_retries, user_task, attempts_total, last_raw, last_err,
                   prompt, raw, data, result, error, escaped, client_calls,
                   log>>

\* prompt = _build_prompt(...)
BuildPromptStep ==
    /\ pc = "build"
    /\ prompt' = PromptFor(attempt, user_task, last_raw)
    /\ pc' = "call"
    /\ UNCHANGED <<bp, par, max_retries, user_task, attempts_total, last_raw, last_err,
                   attempt, raw, data, result, error, escaped, client_calls,
                   log>>

\* mutant: the first raw output is carried, later ones are not
CallGeneratorReturns_KeepFirst ==
    /\ pc = "call"
    /\ \E t \in Texts :
         /\ raw' = <<t>>
         /\ last_raw' = (IF last_raw = "" THEN t ELSE last_raw)
         /\ client_calls' = Append(client_calls,
                                   [prompt |-> prompt, out |-> TextOut(t)])
    /\ pc' = "parse"
    /\ UNCHANGED <<bp, par, max_retries, user_task, attempts_total, last_err, attempt,
                   prompt, data, result, error, escaped, log>>

\* mutant: last_raw = raw is missing
CallGeneratorReturns_NoCarry ==
    /\ pc = "call"
    /\ \E t \in Texts :
         /\ raw' = <<t>>
         /\ client_calls' = Append(client_calls,
                                   [prompt |-> prompt, out |-> TextOut(t)])
    /\ pc' = "parse"
    /\ UNCHANGED <<bp, par, max_retries, user_task, attempts_total, last_raw, last_err,
                   attempt, prompt, data, result, error, escaped, log>>

\* raw = client.generate(prompt); last_raw = raw
CallGeneratorReturns ==
    /\ pc = "call"
    /\ \E t \in Texts :
         /\ raw' = <<t>>
         /\ last_raw' = t
         /\ client_calls' = Append(client_calls,
                                   [prompt |-> prompt, out |-> TextOut(t)])
    /\ pc' = "parse"
    /\ UNCHANGED <<bp, par, max_retries, user_task, attempts_total, last_err, attempt,
                   prompt, data, result, error, escaped, log>>

\* mutant: the exception of the generator is raised again
CallGeneratorRaises_Reraise ==
    /\ pc = "call"
    /\ \E e \in ClientErrors :
         /\ last_err' = ClientError(e)
         /\ client_calls' = Append(client_calls,
                                   [prompt |-> prompt, out |-> ExcOut(e)])
         /\ log' = Append(log, LogEntry(attempt, "exception", ClientError(e)))
         /\ escaped' = <<e>>
    /\ pc' = "escaped"
    /\ UNCHANGED <<bp, par, max_retries, user_task, attempts_total, last_raw, attempt,
                   prompt, raw, data, result, error>>

\* mutant: break instead of continue
CallGeneratorRaises_Abort ==
    /\ pc = "call"
    /\ \E e \in ClientErrors :
         /\ last_err' = ClientError(e)
         /\ client_calls' = Append(client_calls,
                                   [prompt |-> prompt, out |-> ExcOut(e)])
         /\ log' = Append(log, LogEntry(attempt, "exception", ClientError(e)))
    /\ pc' = "raise"
    /\ UNCHANGED <<bp, par, max_retries, user_task, attempts_total, last_raw, attempt,
                   prompt, raw, data, result, error, escaped>>

\* mutant: a failed call clears the carried raw output
CallGeneratorRaises_ClearCarried ==
    /\ pc = "call"
    /\ \E e \in ClientErrors :
         /\ last_err' = ClientError(e)
         /\ client_calls' = Append(client_calls,
                                   [prompt |-> prompt, out |-> ExcOut(e)])
         /\ log' = Append(log, LogEntry(attempt, "exception", ClientError(e)))
    /\ last_raw' = ""
    /\ pc' = "for"
    /\ UNCHANGED <<bp, par, max_retries, user_task, attempts_total, attempt,
                   prompt, raw, data, result, error, escaped>>

\* mutant: the first recorded reason is kept
CallGeneratorRaises_KeepFirstError ==
    /\ pc = "call"
    /\ \E e \in ClientErrors :
         /\ last_err' = (IF last_err = <<>> THEN ClientError(e) ELSE last_err)
         /\ client_calls' = Append(client_calls,
                                   [prompt |-> prompt, out |-> ExcOut(e)])
         /\ log' = Append(log, LogEntry(attempt, "exception", ClientError(e)))
    /\ pc' = "for"
    /\ UNCHANGED <<bp, par, max_retries, user_task, attempts_total, last_raw, attempt,
                   prompt, raw, data, result, error, escaped>>

\* client.generate(prompt) raises: except Exception as e ... continue
CallGeneratorRaises ==
    /\ pc = "call"
    /\ \E e \in ClientErrors :
         /\ last_err' = ClientError(e)
         /\ client_calls' = Append(client_calls,
                                   [prompt |-> prompt, out |-> ExcOut(e)])
         /\ log' = Append(log, LogEntry(attempt, "exception", ClientError(e)))
    /\ pc' = "for"
    /\ UNCHANGED <<bp, par, max_retries, user_task, attempts_total, last_raw, attempt,
                   prompt, raw, data, result, error, escaped>>

\* mutant: the outer handler catches the client's exceptions only
ParseJson_Unhandled ==
    /\ pc = "parse"
    /\ LET r == JsonLoads(raw[1]) IN
         CASE r.kind = "ok" ->
                /\ data' = r.value
                /\ pc' = "validate"
                /\ UNCHANGED <<last_err, log, escaped>>
           [] r.kind = "JSONDecodeError" ->
                /\ last_err' = ParseError(r.exc)
                /\ log' = Append(log, LogEntry(attempt, "warning",
                                               ParseError(r.exc)))
                /\ pc' = "for"
                /\ UNCHANGED <<data, escaped>>
           [] OTHER ->
                /\ escaped' = <<r.exc>>
                /\ pc' = "escaped"
                /\ UNCHANGED <<data, last_err, log>>
    /\ UNCHANGED <<bp, par, max_retries, user_task, attempts_total, last_raw, attempt,
                   prompt, raw, result, error, client_calls>>

\* data = json.loads(raw), its JSONDecodeError handler, and the outer handler
\* for any other exception it raises
ParseJson ==
    /\ pc = "parse"
    /\ LET r == JsonLoads(raw[1]) IN
         CASE r.kind = "ok" ->
                /\ data' = r.value
                /\ pc' = "validate"
                /\ UNCHANGED <<last_err, log>>
           [] r.kind = "JSONDecodeError" ->
                /\ last_err' = ParseError(r.exc)
                /\ log' = Append(log, LogEntry(attempt, "warning",
                                               ParseError(r.exc)))
                /\ pc' = "for"
                /\ data' = data
           [] OTHER ->
                /\ last_err' = ClientError(r.exc)
                /\ log' = Append(log, LogEntry(attempt, "exception",
                                               ClientError(r.exc)))
                /\ pc' = "for"
                /\ data' = data
    /\ UNCHANGED <<bp, par, max_retries, user_task, attempts_total, last_raw, attempt,
                   prompt, raw, result, error, escaped, client_calls>>

\* mutant: a validated value does not end the loop
ValidateSchema_NoReturn ==
    /\ pc = "validate"
    /\ LET v == ModelValidate(data) IN
         IF v.kind = "ok"
         THEN /\ result' = v.obj
              /\ log' = Append(log, LogEntry(attempt, "succeeded", <<>>))
              /\ pc' = "for"
              /\ last_err' = last_err
         ELSE /\ last_err' = SchemaError(v.errors)
              /\ log' = Append(log, LogEntry(attempt, "warning",
                                             SchemaError(v.errors)))
              /\ pc' = "for"
              /\ result' = result
    /\ UNCHANGED <<bp, par, max_retries, user_task, attempts_total, last_raw, attempt,
                   prompt, raw, data, error, escaped, client_calls>>

\* obj = schema.model_validate(data); return obj, or the ValidationError
\* handler
ValidateSchema ==
    /\ pc = "validate"
    /\ LET v == ModelValidate(data) IN
         IF v.kind = "ok"
         THEN /\ result' = v.obj
              /\ log' = Append(log, LogEntry(attempt, "succeeded", <<>>))
              /\ pc' = "returned"
              /\ last_err' = last_err
         ELSE /\ last_err' = SchemaError(v.errors)
              /\ log' = Append(log, LogEntry(attempt, "warning",
                                             SchemaError(v.errors)))
              /\ pc' = "for"
              /\ result' = result
    /\ UNCHANGED <<bp, par, max_retries, user_task, attempts_total, last_raw, attempt,
                   prompt, raw, data, error, escaped, client_calls>>

\* raise StructuredGenerationError(...)
RaiseFailure ==
    /\ pc = "raise"
    /\ error' = StructuredGenerationError(last_raw, OrUnknown(last_err),
                                          attempts_total)
    /\ pc' = "raised"
    /\ UNCHANGED <<bp, par, max_retries, user_task, attempts_total, last_raw, last_err,
                   attempt, prompt, raw, data, result, escaped, client_calls,
                   log>>

Next ==
    \/ ForNext
    \/ BuildPromptStep
    \/ CallGeneratorReturns
    \/ CallGeneratorRaises
    \/ ParseJson
    \/ ValidateSchema
    \/ RaiseFailure

Spec == Init /\ [][Next]_vars

\* the function body runs on: every statement completes, and a generator
\* call returns or raises (client.py: the request ends or times out)
FairSpec == Spec /\ WF_vars(Next)


(***************************************************************************)
(* _build_prompt on its own: two calls, each with arguments drawn from     *)
(* small sets.                                                             *)
(***************************************************************************)
\* no generate_structured call is in progress
NoCall ==
    /\ max_retries = 0
    /\ user_task = ""
    /\ attempts_total = 0
    /\ last_raw = ""
    /\ last_err = <<>>
    /\ attempt = 0
    /\ pc = "idle"
    /\ prompt = <<>>
    /\ raw = <<>>
    /\ data = Unset
    /\ result = Unset
    /\ error = Unset
    /\ escaped = <<>>
    /\ client_calls = <<>>
    /\ log = <<>>

mainVars == <<max_retries, user_task, attempts_total, last_raw, last_err,
              attempt, pc, prompt, raw, data, result, error, escaped,
              client_calls, log>>

PromptCalls == {"first", "second"}

\* previous_invalid: None, "", or a raw output
PreviousInvalids == {<<>>, <<"">>, <<TGarbage>>, <<TBadType>>}

PromptArgs ==
    [user_task : Tasks, previous_invalid : PreviousInvalids,
     repair_mode : BOOLEAN]

InitPrompt ==
    /\ NoCall
    /\ par = NoParallelCalls
    /\ bp \in [PromptCalls -> [args : PromptArgs, out : {<<>>}]]

\* prompt = _build_prompt(user_task, schema, previous_invalid=...,
\* repair_mode=...)
BuildPromptCall(c) ==
    /\ bp[c].out = <<>>
    /\ bp' = [bp EXCEPT ![c].out = BuildPrompt(bp[c].args.user_task,
                                               bp[c].args.previous_invalid,
                                               bp[c].args.repair_mode)]
    /\ UNCHANGED <<mainVars, par>>

NextPrompt == \E c \in PromptCalls : BuildPromptCall(c)

SpecPrompt == InitPrompt /\ [][NextPrompt]_vars


(***************************************************************************)
(* Two generate_structured calls side by side, each with its own           *)
(* FakeClient (tests): outputs is the list of texts it returns, calls the  *)
(* number of texts returned so far; past the end of the list               *)
(* self.outputs[self.calls] raises IndexError.                             *)
(***************************************************************************)
\* max_retries of a parallel call is drawn from 0..ParRetries, the outputs of
\* its client have at most ParOutputs texts
ParRetries == 1
ParOutputs == 2

ParCalls == {1, 2}

\* each call has its own task and its own texts
ParTask(c) ==
    IF c = 1 THEN "Return a title, 3 items, and confidence."
    ELSE "Return JSON only with a short title."

ParTexts(c) == IF c = 1 THEN {TOk, TGarbage} ELSE {TGood, TNotJson}

\* the locals of a call on entry, and its client
CallInit(mr, task, outputs) ==
    [max_retries |-> mr,
     user_task |-> task,
     attempts_total |-> AttemptsTotal(mr),
     last_raw |-> "",
     last_err |-> <<>>,
     attempt |-> 0,
     pc |-> "for",
     prompt |-> <<>>,
     raw |-> <<>>,
     data |-> Unset,
     result |-> Unset,
     error |-> Unset,
     outputs |-> outputs,
     calls |-> 0,
     steps |-> 0]

ParInits(c) ==
    {CallInit(mr, ParTask(c), outputs) :
        mr \in 0..ParRetries,
        outputs \in UNION {[1..n -> ParTexts(c)] : n \in 0..ParOutputs}}

CallEnded(st) == st.pc \in {"returned", "raised"}

\* the next statement of the body of generate_structured, on the locals st
CallStep(st) ==
    LET next ==
      CASE st.pc = "for" ->
             IF st.attempt + 1 \in AttemptRange(st.attempts_total)
             THEN [st EXCEPT !.attempt = st.attempt + 1, !.pc = "build"]
             ELSE [st EXCEPT !.pc = "raise"]
        [] st.pc = "build" ->
             [st EXCEPT !.prompt = PromptFor(st.attempt, st.user_task,
                                             st.last_raw),
                        !.pc = "call"]
        [] st.pc = "call" ->
             IF st.calls + 1 \in DOMAIN st.outputs
             THEN [st EXCEPT !.raw = <<st.outputs[st.calls + 1]>>,
                             !.last_raw = st.outputs[st.calls + 1],
                             !.calls = st.calls + 1,
                             !.pc = "parse"]
             ELSE [st EXCEPT !.last_err = ClientError("IndexError"),
                             !.pc = "for"]
        [] st.pc = "parse" ->
             LET r == JsonLoads(st.raw[1]) IN
               CASE r.kind = "ok" ->
                      [st EXCEPT !.data = r.value, !.pc = "validate"]
                 [] r.kind = "JSONDecodeError" ->
                      [st EXCEPT !.last_err = ParseError(r.exc), !.pc = "for"]
                 [] OTHER ->
                      [st EXCEPT !.last_err = ClientError(r.exc), !.pc = "for"]
        [] st.pc = "validate" ->
             LET v == ModelValidate(st.data) IN
               IF v.kind = "ok"
               THEN [st EXCEPT !.result = v.obj, !.pc = "returned"]
               ELSE [st EXCEPT !.last_err = SchemaError(v.errors),
                               !.pc = "for"]
        [] st.pc = "raise" ->
             [st EXCEPT !.error = StructuredGenerationError(
                                     st.last_raw, OrUnknown(st.last_err),
                                     st.attempts_total),
                        !.pc = "raised"]
    IN [next EXCEPT !.steps = st.steps + 1]

InitPar ==
    /\ NoCall
    /\ bp = NoPromptCalls
    /\ par \in [ParCalls -> UNION {ParInits(c) : c \in ParCalls}]
    /\ \A c \in ParCalls : par[c] \in ParInits(c)

\* mutant: last_raw is a module-level variable, written by every call
ParStep_SharedCarry(c) ==
    /\ ~CallEnded(par[c])
    /\ par' = [d \in ParCalls |->
                 IF d = c THEN CallStep(par[c])
                 ELSE [par[d] EXCEPT !.last_raw = CallStep(par[c]).last_raw]]
    /\ UNCHANGED <<mainVars, bp>>

\* call c runs its next statement: it reads and writes its own locals and
\* its own client
ParStep(c) ==
    /\ ~CallEnded(par[c])
    /\ par' = [par EXCEPT ![c] = CallStep(par[c])]
    /\ UNCHANGED <<mainVars, bp>>

NextPar == \E c \in ParCalls : ParStep(c)

SpecPar == InitPar /\ [][NextPar]_vars

(***************************************************************************)
(* Reading the history of a call.                                          *)
(***************************************************************************)
NCalls == Len(client_calls)

\* the generator call of attempt i returned a text
CallReturned(i) == client_calls[i].out.k = "text"

\* the raw text (or the exception) attempt i got from the generator
RawOf(i) == client_calls[i].out.v

\* the text of attempt i parses as JSON and validates against the schema
Succeeds(i) ==
    /\ CallReturned(i)
    /\ JsonLoads(RawOf(i)).kind = "ok"
    /\ ModelValidate(JsonLoads(RawOf(i)).value).kind = "ok"

\* the previous invalid output embedded in a repair prompt
IsNormalPrompt(p) == Len(p) = 5 /\ p[4] = "TASK:"
IsRepairPrompt(p) == Len(p) = 7 /\ p[6] = "INVALID OUTPUT:"
PrevOf(p) == p[7]

\* the text returned by the latest of the attempts 1..n whose call returned,
\* "" when none did
LatestReturned(n) ==
    IF \E j \in 1..n : CallReturned(j)
    THEN RawOf(CHOOSE j \in 1..n :
                 /\ CallReturned(j)
                 /\ \A h \in (j + 1)..n : ~CallReturned(h))
    ELSE ""

Terminated == pc \in {"returned", "raised", "escaped"}

(***************************************************************************)
(* C1: when attempt k is the first whose raw output parses and validates,  *)
(* the generator is called exactly k times, no later attempt runs and the  *)
(* value returned is the validated result of attempt k.                    *)
(***************************************************************************)
C1_FirstSuccessIsReturned ==
    /\ \A i \in 1..NCalls :
         Succeeds(i) =>
           /\ i = NCalls
           /\ attempt = i
           /\ pc \in {"parse", "validate", "returned"}
    /\ pc = "returned" =>
         /\ NCalls >= 1
         /\ Succeeds(NCalls)
         /\ \A j \in 1..(NCalls - 1) : ~Succeeds(j)
         /\ result = ModelValidate(JsonLoads(RawOf(NCalls)).value).obj
         /\ ~ENABLED Next

\* the scenario of test_repair_prompt_triggered_and_succeeds
C1_Witness ==
    /\ pc = "returned"
    /\ max_retries = 2
    /\ NCalls = 2
    /\ RawOf(1) = TNotJson
    /\ RawOf(2) = TOk
    /\ result = [k |-> "SimpleResult", title |-> "OK",
                 items |-> <<"x", "y", "z">>, confidence |-> 8]

(***************************************************************************)
(* C2: with max_retries >= 0 the generator is invoked at most              *)
(* max_retries + 1 times, exactly once per attempt, and never again once   *)
(* the call has returned a result or raised the failure.                   *)
(***************************************************************************)
C2_CallsBounded ==
    /\ max_retries >= 0 => NCalls <= max_retries + 1
    /\ NCalls = (IF pc \in {"build", "call"} THEN attempt - 1 ELSE attempt)
    /\ pc \in {"returned", "raised"} => ~ENABLED Next

C2_Witness ==
    /\ pc = "raised"
    /\ max_retries = 2
    /\ NCalls = 3

(***************************************************************************)
(* C3: a StructuredGenerationError is raised only when every attempt of    *)
(* the bounded sequence ran and failed (transport, parse or validation),   *)
(* none succeeded, and its attempts field is max_retries + 1.              *)
(***************************************************************************)
C3_FailureOnlyAfterAllFailed ==
    error # Unset =>
      /\ pc = "raised"
      /\ NCalls = Cardinality(1..(max_retries + 1))
      /\ Len(log) = NCalls
      /\ \A i \in 1..NCalls :
           /\ ~Succeeds(i)
           /\ log[i].attempt = i
           /\ log[i].what \in {"warning", "exception"}
           /\ log[i].reason[1] \in {"Client/LLM error: ", "JSON parse error: ",
                                    "Schema validation error: "}
      /\ result = Unset
      /\ error.attempts = max_retries + 1

\* one failure of each kind, max_retries = 2
C3_Witness ==
    /\ pc = "raised"
    /\ max_retries = 2
    /\ NCalls = 3
    /\ ~CallReturned(1)
    /\ RawOf(2) = TNotJson
    /\ RawOf(3) = TBadType
    /\ error.attempts = 3

(***************************************************************************)
(* C4: an execution that has ended has exactly one outcome: a value that   *)
(* passed schema validation was returned, or a StructuredGenerationError   *)
(* was raised; never both, never neither, and no other exception.          *)
(***************************************************************************)
C4_ExactlyOneOutcome ==
    /\ ~ENABLED Next => Terminated
    /\ Terminated =>
         /\ escaped = <<>>
         /\ (result # Unset) # (error # Unset)
         /\ result # Unset =>
              /\ pc = "returned"
              /\ ValidationErrors(data) = {}
              /\ result = SimpleResult(data)
         /\ error # Unset =>
              /\ pc = "raised"
              /\ error.k = "StructuredGenerationError"
    /\ ~Terminated => result = Unset /\ error = Unset

\* an execution ended by the failure, the parse stage having raised an
\* exception that is no JSONDecodeError on the way
C4_Witness ==
    /\ pc = "raised"
    /\ \E i \in 1..NCalls : CallReturned(i) /\ RawOf(i) = TDeep
    /\ error # Unset
    /\ result = Unset

(***************************************************************************)
(* C5: no transport, parse or validation error of an attempt leaves        *)
(* generate_structured; each is recorded and the loop goes on, and the     *)
(* only error the caller sees is the one raised on exhaustion.             *)
(***************************************************************************)
C5_FailuresSwallowed ==
    /\ escaped = <<>>
    /\ pc # "escaped"
    /\ \A i \in 1..NCalls :
         (~Succeeds(i) /\ (i < NCalls \/ pc \in {"for", "raise", "raised"})) =>
            /\ Len(log) >= i
            /\ log[i].what \in {"warning", "exception"}
            /\ error # Unset => i <= attempts_total /\ NCalls = attempts_total

C5_Witness ==
    /\ pc = "returned"
    /\ NCalls = 3
    /\ ~CallReturned(1)
    /\ RawOf(2) = TGarbage
    /\ log[1].what = "exception"
    /\ log[2].reason[1] = "JSON parse error: "

(***************************************************************************)
(* C6: a generator call that fails on attempt k does not end the loop: the *)
(* failure is recorded as the attempt's failure reason and, when           *)
(* k < max_retries + 1, attempt k + 1 runs and calls the generator again.  *)
(***************************************************************************)
C6_CallFailureGoesOn ==
    \A i \in 1..NCalls :
      ~CallReturned(i) =>
        /\ log[i] = LogEntry(i, "exception", ClientError(RawOf(i)))
        /\ (pc = "for" /\ attempt = i) => last_err = ClientError(RawOf(i))
        /\ (i < max_retries + 1 /\ NCalls = i) =>
             \/ pc = "for" /\ attempt = i
             \/ pc \in {"build", "call"} /\ attempt = i + 1

\* the call of attempt 1 timed out and attempt 2 called the generator again
C6_Witness ==
    /\ NCalls = 2
    /\ ~CallReturned(1)
    /\ RawOf(1) = "TimeoutException"
    /\ max_retries = 1
    /\ log[1].reason = ClientError("TimeoutException")

(***************************************************************************)
(* C7: attempt 1 builds its prompt in normal mode with the original task;  *)
(* every later attempt builds it in repair mode, whatever failure ended    *)
(* the attempt before.                                                     *)
(***************************************************************************)
PromptsSeen ==
    [i \in 1..(NCalls + (IF pc = "call" THEN 1 ELSE 0)) |->
        IF i <= NCalls THEN client_calls[i].prompt ELSE prompt]

C7_NormalThenRepair ==
    \A i \in DOMAIN PromptsSeen :
      IF i = 1
      THEN /\ IsNormalPrompt(PromptsSeen[i])
           /\ PromptsSeen[i][5] = user_task
      ELSE IsRepairPrompt(PromptsSeen[i])

\* repair prompts after a transport failure and after a validation failure
C7_Witness ==
    /\ NCalls = 2
    /\ pc = "call"
    /\ ~CallReturned(1)
    /\ RawOf(2) = TBadType
    /\ IsNormalPrompt(PromptsSeen[1])
    /\ \A i \in 2..3 : IsRepairPrompt(PromptsSeen[i])

(***************************************************************************)
(* C8, as claimed: the output embedded in the repair prompt of every       *)
(* attempt k >= 2 is the raw output of attempt k - 1 (nothing when that    *)
(* attempt got none), never the output of an older attempt.                *)
(***************************************************************************)
C8_AlwaysPrecedingAttempt ==
    \A i \in 2..Len(PromptsSeen) :
      PrevOf(PromptsSeen[i]) =
         (IF CallReturned(i - 1) THEN RawOf(i - 1) ELSE "")

(***************************************************************************)
(* C8, amended: for every attempt k >= 2 whose preceding attempt's         *)
(* generator call returned, the output embedded in the repair prompt is    *)
(* the raw output of attempt k - 1, not that of an older attempt.          *)
(***************************************************************************)
C8_PrecedingAttemptWhenReturned ==
    \A i \in 2..Len(PromptsSeen) :
      CallReturned(i - 1) => PrevOf(PromptsSeen[i]) = RawOf(i - 1)

\* attempt 3 repairs the output of attempt 2, which differs from attempt 1's
C8_Witness ==
    /\ Len(PromptsSeen) >= 3
    /\ RawOf(1) = TGarbage
    /\ RawOf(2) = TBadType
    /\ PrevOf(PromptsSeen[3]) = TBadType

(***************************************************************************)
(* C9: a failing generator call leaves the carried raw output unchanged:   *)
(* the repair target of the next attempt is the text of the latest earlier *)
(* attempt whose call returned, or "" when none has.                       *)
(***************************************************************************)
C9_FailedCallKeepsCarried ==
    \A i \in 1..NCalls :
      ~CallReturned(i) =>
        /\ (NCalls = i /\ pc = "for") => last_raw = LatestReturned(i - 1)
        /\ i + 1 \in DOMAIN PromptsSeen =>
             PrevOf(PromptsSeen[i + 1]) = LatestReturned(i - 1)

\* attempt 2 failed in the call; attempt 3 repairs the text of attempt 1
C9_Witness ==
    /\ Len(PromptsSeen) = 3
    /\ RawOf(1) = TGarbage
    /\ ~CallReturned(2)
    /\ PrevOf(PromptsSeen[3]) = TGarbage

(***************************************************************************)
(* C10: on exhaustion last_raw_output is the text of the latest attempt    *)
(* whose generator call returned ("" when none did), and attempts is       *)
(* max_retries + 1; a generator that always returns the same unparsable    *)
(* text t gives last_raw_output = t.                                       *)
(***************************************************************************)
C10_LastRawOnExhaustion ==
    error # Unset =>
      /\ error.last_raw_output = LatestReturned(NCalls)
      /\ error.attempts = max_retries + 1
      /\ \A t \in Texts :
           (/\ max_retries >= 0
            /\ JsonLoads(t).kind = "JSONDecodeError"
            /\ \A i \in 1..NCalls : CallReturned(i) /\ RawOf(i) = t)
           => error.last_raw_output = t

\* the final call failed: the text reported is that of attempt 2
C10_Witness ==
    /\ pc = "raised"
    /\ max_retries = 2
    /\ RawOf(1) = TGarbage
    /\ RawOf(2) = TNotJson
    /\ ~CallReturned(3)
    /\ error.last_raw_output = TNotJson
    /\ error.attempts = 3

\* the scenario of the specification: always "garbage", max_retries = 2
C10_GarbageScenario ==
    /\ pc = "raised"
    /\ max_retries = 2
    /\ \A i \in 1..3 : RawOf(i) = TGarbage
    /\ error.last_raw_output = "garbage"
    /\ error.attempts = 3

(***************************************************************************)
(* Reading a parsed value against the declared fields of the schema.       *)
(***************************************************************************)
IsObject(v) == v.k = "obj"

\* a declared field is absent
MissesRequired(v) == IsObject(v) /\ ~(SchemaFields \subseteq DOMAIN v.fields)

\* the object carries a key the schema does not declare
HasUndeclared(v) == IsObject(v) /\ ~(DOMAIN v.fields \subseteq SchemaFields)

\* the JSON type of a present field is not the declared one (title: string,
\* items: array of strings, confidence: number)
ViolatesType(v) ==
    \/ ~IsObject(v)
    \/ "title" \in DOMAIN v.fields /\ v.fields.title.k # "str"
    \/ "items" \in DOMAIN v.fields /\
         \/ v.fields.items.k # "list"
         \/ /\ v.fields.items.k = "list"
            /\ \E i \in 1..Len(v.fields.items.items) :
                 v.fields.items.items[i].k # "str"
    \/ "confidence" \in DOMAIN v.fields /\ v.fields.confidence.k # "num"

\* a number outside the declared range 0..1
ViolatesRange(v) ==
    /\ IsObject(v)
    /\ "confidence" \in DOMAIN v.fields
    /\ v.fields.confidence.k = "num"
    /\ (v.fields.confidence.v < ConfidenceGe \/ v.fields.confidence.v > ConfidenceLe)

\* a string where a number is declared that does not even read as a number
ViolatesTypeBeyondCoercion(v) ==
    \/ ~IsObject(v)
    \/ "title" \in DOMAIN v.fields /\ v.fields.title.k # "str"
    \/ "items" \in DOMAIN v.fields /\
         \/ v.fields.items.k # "list"
         \/ /\ v.fields.items.k = "list"
            /\ \E i \in 1..Len(v.fields.items.items) :
                 v.fields.items.items[i].k # "str"
    \/ "confidence" \in DOMAIN v.fields /\
         /\ v.fields.confidence.k # "num"
         /\ ~(v.fields.confidence.k = "str"
              /\ FloatOfStr(v.fields.confidence.s) # <<>>)

\* the parsed value of attempt i, for an attempt whose text parsed
Parsed(i) == CallReturned(i) /\ JsonLoads(RawOf(i)).kind = "ok"
ValueOf(i) == JsonLoads(RawOf(i)).value

\* attempt i went to RETRY with a validation error
RetriedOnValidation(i) ==
    /\ Len(log) >= i
    /\ log[i].attempt = i
    /\ log[i].what = "warning"
    /\ log[i].reason[1] = "Schema validation error: "

\* attempt i has ended (the loop is past its validation)
Ended(i) == i < NCalls \/ pc \in {"for", "raise", "raised", "returned"}

(***************************************************************************)
(* C11, as claimed: an object that satisfies every declared field and      *)
(* also carries an undeclared field fails validation, goes to RETRY and is *)
(* never returned.                                                         *)
(***************************************************************************)
C11_UndeclaredFieldRejected ==
    \A i \in 1..NCalls :
      (Parsed(i) /\ HasUndeclared(ValueOf(i)) /\ Ended(i)) =>
         /\ RetriedOnValidation(i)
         /\ ~(pc = "returned" /\ i = NCalls)

Malformed(i) == CallReturned(i) /\ JsonLoads(RawOf(i)).kind # "ok"

\* the reason json.loads gives for the text of attempt i
ParseReasonOf(i) ==
    IF JsonLoads(RawOf(i)).kind = "JSONDecodeError"
    THEN ParseError(JsonLoads(RawOf(i)).exc)
    ELSE ClientError(JsonLoads(RawOf(i)).exc)

ReasonOf(i) ==
    IF ~CallReturned(i) THEN ClientError(RawOf(i))
    ELSE IF JsonLoads(RawOf(i)).kind # "ok" THEN ParseReasonOf(i)
    ELSE SchemaError(ValidationErrors(ValueOf(i)))

\* last_raw_output is the text of an attempt before the final one
RawFromEarlierAttempt ==
    \E j \in 1..(NCalls - 1) :
       /\ CallReturned(j)
       /\ \A h \in (j + 1)..NCalls : ~CallReturned(h)
       /\ error.last_raw_output = RawOf(j)

C17_LastErrorOfFinalAttempt ==
    (error # Unset /\ max_retries >= 0) =>
       /\ NCalls = max_retries + 1
       /\ error.last_error = ReasonOf(NCalls)
       /\ CallReturned(NCalls) => error.last_raw_output = RawOf(NCalls)
       /\ RawFromEarlierAttempt <=>
            (~CallReturned(NCalls) /\ \E j \in 1..(NCalls - 1) : CallReturned(j))

\* parse failure, validation failure, then a timeout: the reason is the
\* timeout's, the text is attempt 2's
C17_Witness ==
    /\ pc = "raised"
    /\ max_retries = 2
    /\ RawOf(1) = TGarbage
    /\ RawOf(2) = TBadType
    /\ RawOf(3) = "TimeoutException"
    /\ ~CallReturned(3)
    /\ error.last_error = ClientError("TimeoutException")
    /\ error.last_raw_output = TBadType

(***************************************************************************)
(* C19: with a negative max_retries no attempt runs and the generator is   *)
(* never called, yet the failure is raised, with attempts = 1 +            *)
(* max_retries, last_raw_output = "" and last_error = "Unknown error";     *)
(* "Unknown error" is reported in no execution in which an attempt ran.    *)
(***************************************************************************)
C19_NegativeBudget ==
    /\ max_retries < 0 =>
         /\ NCalls = 0
         /\ attempt = 0
         /\ Len(log) = 0
         /\ pc \in {"for", "raise", "raised"}
         /\ ~ENABLED Next => pc = "raised"
         /\ pc = "raised" =>
              /\ error.k = "StructuredGenerationError"
              /\ error.attempts = 1 + max_retries
              /\ error.last_raw_output = ""
              /\ error.last_error = <<"Unknown error">>
    /\ (error # Unset /\ error.last_error = <<"Unknown error">>) =>
         /\ attempt = 0
         /\ NCalls = 0
         /\ max_retries < 0

C19_Witness ==
    /\ pc = "raised"
    /\ max_retries = 0 - 2
    /\ NCalls = 0
    /\ error.attempts = 0 - 1
    /\ error.last_error = <<"Unknown error">>

(***************************************************************************)
(* C15: within an attempt the stages run in the order BUILD_PROMPT,        *)
(* CALL_GENERATOR, PARSE_JSON, VALIDATE_SCHEMA: the generator is called    *)
(* with the prompt built for that attempt, parsing follows a call that     *)
(* returned text, validation follows a parse that succeeded, SUCCESS       *)
(* follows a validation that succeeded, and attempt k + 1 starts only      *)
(* after attempt k ended in RETRY.                                         *)
(***************************************************************************)
StageStep ==
    \/ /\ pc = "for" /\ pc' = "build"
       /\ attempt' = attempt + 1
       /\ attempt >= 1 =>
            /\ Len(log) = attempt
            /\ log[attempt].attempt = attempt
            /\ log[attempt].what \in {"warning", "exception"}
    \/ pc = "for" /\ pc' = "raise"
    \/ /\ pc = "build" /\ pc' = "call"
       /\ prompt' = PromptFor(attempt, user_task, last_raw)
    \/ /\ pc = "call" /\ pc' \in {"parse", "for"}
       /\ prompt = PromptFor(attempt, user_task, last_raw)
       /\ Len(client_calls') = attempt
       /\ client_calls'[attempt].prompt = prompt
       /\ pc' = "parse" =>
            /\ client_calls'[attempt].out.k = "text"
            /\ raw' = <<client_calls'[attempt].out.v>>
       /\ pc' = "for" => client_calls'[attempt].out.k = "exc"
    \/ /\ pc = "parse" /\ pc' \in {"validate", "for"}
       /\ CallReturned(attempt)
       /\ raw = <<RawOf(attempt)>>
       /\ pc' = "validate" =>
            /\ JsonLoads(raw[1]).kind = "ok"
            /\ data' = JsonLoads(raw[1]).value
       /\ pc' = "for" => JsonLoads(raw[1]).kind # "ok"
    \/ /\ pc = "validate" /\ pc' \in {"returned", "for"}
       /\ data = ValueOf(attempt)
       /\ pc' = "returned" <=> ModelValidate(data).kind = "ok"
       /\ pc' = "returned" => result' = ModelValidate(data).obj
    \/ pc = "raise" /\ pc' = "raised"

C15_StageOrder == [][StageStep]_vars

\* attempt 2 at VALIDATE_SCHEMA after attempt 1 ended in RETRY
C15_Witness ==
    /\ pc = "validate"
    /\ attempt = 2
    /\ RawOf(1) = TBadType
    /\ RawOf(2) = TGood
    /\ data = JsonLoads(TGood).value

(***************************************************************************)
(* C18: for every max_retries and every generator whose calls return or    *)
(* fail, generate_structured terminates with a result or the failure; the  *)
(* attempt index goes up by one at every new attempt and no attempt is     *)
(* entered twice.                                                          *)
(***************************************************************************)
AttemptStep ==
    /\ attempt' = attempt \/ attempt' = attempt + 1
    /\ pc' = "build" <=> attempt' = attempt + 1
    /\ pc' = "build" => pc = "for"

C18_Terminates ==
    /\ <>(pc \in {"returned", "raised"})
    /\ [][AttemptStep]_vars

\* exhaustion after three attempts
C18_Witness ==
    /\ pc = "raised"
    /\ max_retries = 2
    /\ attempt = 3
    /\ Len(log) = 3
    /\ \A i \in 1..3 : log[i].attempt = i

(***************************************************************************)
(* C16: _build_prompt is a pure function whose third section is chosen by  *)
(* the mode alone: in normal mode the prompt is the rule block, the schema *)
(* hint and the task, whatever previous_invalid is; in repair mode it is   *)
(* the rule block, the schema hint and the previous invalid output,        *)
(* whatever the task is.                                                   *)
(***************************************************************************)
Built(c) == bp[c].out # <<>>

\* the last section of a prompt
ThirdSection(p) == p[Len(p)]

C16_ThirdSectionByMode ==
    /\ \A c \in PromptCalls :
         Built(c) =>
           /\ bp[c].out[1] = Rules
           /\ bp[c].out[3] = SchemaHint
           /\ IF bp[c].args.repair_mode
              THEN /\ IsRepairPrompt(bp[c].out)
                   /\ ThirdSection(bp[c].out) = OrEmpty(bp[c].args.previous_invalid)
                   /\ \A i \in 1..Len(bp[c].out) :
                        i \notin {3, Len(bp[c].out)} =>
                           bp[c].out[i] # bp[c].args.user_task
              ELSE /\ IsNormalPrompt(bp[c].out)
                   /\ ThirdSection(bp[c].out) = bp[c].args.user_task
    /\ \A c, d \in PromptCalls :
         (/\ Built(c) /\ Built(d)
          /\ bp[c].args.repair_mode = bp[d].args.repair_mode) =>
            /\ (/\ ~bp[c].args.repair_mode
                /\ bp[c].args.user_task = bp[d].args.user_task)
               => bp[c].out = bp[d].out
            /\ (/\ bp[c].args.repair_mode
                /\ OrEmpty(bp[c].args.previous_invalid)
                     = OrEmpty(bp[d].args.previous_invalid))
               => bp[c].out = bp[d].out

\* two repair prompts for different tasks and the same previous output
C16_Witness ==
    /\ Built("first") /\ Built("second")
    /\ bp["first"].args.repair_mode /\ bp["second"].args.repair_mode
    /\ bp["first"].args.user_task # bp["second"].args.user_task
    /\ bp["first"].args.previous_invalid = <<TGarbage>>
    /\ bp["second"].args.previous_invalid = <<TGarbage>>
    /\ bp["first"].out = bp["second"].out

\* two normal prompts for the same task and different previous outputs
C16_NormalIgnoresPrevious ==
    /\ Built("first") /\ Built("second")
    /\ ~bp["first"].args.repair_mode /\ ~bp["second"].args.repair_mode
    /\ bp["first"].args.user_task = bp["second"].args.user_task
    /\ bp["first"].args.previous_invalid = <<TGarbage>>
    /\ bp["second"].args.previous_invalid = <<>>
    /\ bp["first"].out = bp["second"].out

(***************************************************************************)
(* C13: two generate_structured calls running in parallel, each with its   *)
(* own generator, share no mutable state: under every interleaving each    *)
(* call's attempt counter, carried raw output, recorded reason and outcome *)
(* are those of the same call running alone.                               *)
(***************************************************************************)
RECURSIVE RunAlone(_, _)
\* the locals of a call after n statements with nothing running beside it
RunAlone(st, n) == IF n = 0 THEN st ELSE RunAlone(CallStep(st), n - 1)

Alone(c) ==
    RunAlone(CallInit(par[c].max_retries, par[c].user_task, par[c].outputs),
             par[c].steps)

====
